---- MODULE Spec2Model ----
(***************************************************************************)
(* A model of the Othello engine of src/src/othello.rs (Board, its legal   *)
(* move test and its play operation, and Game with its turn loop) and of   *)
(* the Monte Carlo tree search of src/src/mcts.rs.                         *)
(*                                                                         *)
(* A PointVec is the pair <<x, y>>; the board is the 8x8 matrix of the     *)
(* code, indexed board[y][x] as self.0[pos.1][pos.0].  A cell holds 0      *)
(* (empty), 1 (WHITE) or -1 (BLACK).                                       *)
(***************************************************************************)
EXTENDS Integers, Sequences, FiniteSets

\* a Board and the calls of play made on it
VARIABLES board, prevBoard, lastColor, lastPos, lastResult, okCalls, onLine

\* one call of mcts_search: its arguments, the tree (nodes[1] is the root, a
\* node is referred to by its index), the position in the search loop, the
\* playout in progress and the value returned
VARIABLES root_state, player, iterations, nodes, pc, node, iter,
          rstate, rplayer, result2, ret, playRes, preNodes, bpNode

\* what the search has done so far: the board the playout in progress started
\* from, the number of turns of its loop, of plays it has applied and of turns
\* it has skipped in a row; the tree at the start of the iteration in progress
\* and the node selected in it
VARIABLES rstart, rturns, rplays, rskips, exNodes, exNode

\* a Game (its board is the variable board above): current_turn, the position
\* in play_whole_game, and for the turn of its loop in progress or just ended
\* the color at its start, how it ended and the turns skipped in a row
VARIABLES current_turn, gpc, turnStart, turnKind, gskips

boardVars == <<board, prevBoard, lastColor, lastPos, lastResult, okCalls, onLine>>

searchVars == <<root_state, player, iterations, nodes, pc, node, iter,
                rstate, rplayer, result2, ret, playRes, preNodes, bpNode>>

traceVars == <<rstart, rturns, rplays, rskips, exNodes, exNode>>

mctsVars == <<searchVars, traceVars>>

gameVars == <<current_turn, gpc, turnStart, turnKind, gskips>>

vars == <<boardVars, mctsVars, gameVars>>

(***************************************************************************)
(* Bounds of the exploration.                                              *)
(***************************************************************************)
\* Every sequence of at most MaxFree successful plays is explored from the
\* initial board; beyond that depth only the recorded game is followed.
MaxFree == 2

\* A complete recorded game (60 plays, the last two by WHITE after a skipped
\* BLACK turn); every entry is checked by play itself when it is replayed.
RecordedGame ==
  << <<1, <<5, 3>>>>, <<-1, <<5, 4>>>>, <<1, <<2, 5>>>>, <<-1, <<4, 2>>>>,
     <<1, <<3, 1>>>>, <<-1, <<1, 6>>>>, <<1, <<4, 5>>>>, <<-1, <<5, 6>>>>,
     <<1, <<4, 6>>>>, <<-1, <<5, 2>>>>, <<1, <<2, 4>>>>, <<-1, <<4, 1>>>>,
     <<1, <<6, 6>>>>, <<-1, <<2, 0>>>>, <<1, <<2, 6>>>>, <<-1, <<3, 5>>>>,
     <<1, <<0, 7>>>>, <<-1, <<2, 2>>>>, <<1, <<3, 6>>>>, <<-1, <<1, 7>>>>,
     <<1, <<6, 4>>>>, <<-1, <<5, 5>>>>, <<1, <<1, 1>>>>, <<-1, <<7, 6>>>>,
     <<1, <<4, 0>>>>, <<-1, <<0, 0>>>>, <<1, <<6, 1>>>>, <<-1, <<7, 5>>>>,
     <<1, <<3, 2>>>>, <<-1, <<1, 4>>>>, <<1, <<1, 5>>>>, <<-1, <<2, 3>>>>,
     <<1, <<1, 2>>>>, <<-1, <<0, 5>>>>, <<1, <<0, 6>>>>, <<-1, <<0, 4>>>>,
     <<1, <<3, 7>>>>, <<-1, <<2, 1>>>>, <<1, <<1, 3>>>>, <<-1, <<0, 1>>>>,
     <<1, <<5, 7>>>>, <<-1, <<5, 1>>>>, <<1, <<7, 3>>>>, <<-1, <<6, 3>>>>,
     <<1, <<1, 0>>>>, <<-1, <<2, 7>>>>, <<1, <<5, 0>>>>, <<-1, <<7, 1>>>>,
     <<1, <<7, 2>>>>, <<-1, <<0, 2>>>>, <<1, <<4, 7>>>>, <<-1, <<0, 3>>>>,
     <<1, <<7, 7>>>>, <<-1, <<6, 5>>>>, <<1, <<7, 4>>>>, <<-1, <<6, 7>>>>,
     <<1, <<6, 0>>>>, <<-1, <<6, 2>>>>, <<1, <<7, 0>>>>, <<1, <<3, 0>>>> >>

\* mcts_search is called with at most MaxIter iterations,
MaxIter == 4

\* on the boards of the recorded game with at most MaxEmpty empty cells.
MaxEmpty == 4

\* The coordinates offered to play: every cell of the board and a ring of
\* off-board coordinates around it.
Coords == {<<x, y>> : x \in -1..8, y \in -1..8}

\* The coordinates at which failing calls of play are issued.
Probes == {<<3, 3>>, <<0, 0>>, <<2, 3>>, <<-1, 0>>, <<8, 3>>, <<3, 8>>}

(***************************************************************************)
(* Color, Direction, PointVec                                              *)
(***************************************************************************)
WHITE == 1

BLACK == -1

Colors == {WHITE, BLACK}

\* Direction::all(), each as its Direction::vector(), in the order of the code
Directions ==
  << <<0, 1>>, <<0, -1>>, <<-1, 0>>, <<1, 0>>,
     <<-1, 1>>, <<1, 1>>, <<-1, -1>>, <<1, -1>> >>

\* PointVec + PointVec (the walks never leave -1..8, so i8 never overflows)
Add(p, q) == <<p[1] + q[1], p[2] + q[2]>>

\* match player { WHITE => BLACK, BLACK => WHITE }
Opposite(c) == IF c = WHITE THEN BLACK ELSE WHITE

(***************************************************************************)
(* Board                                                                   *)
(***************************************************************************)
Cells == {<<x, y>> : x \in 0..7, y \in 0..7}

\* Board::new with the two colors exchanged
BoardNewSwapped ==
  [y \in 0..7 |-> [x \in 0..7 |->
      IF <<y, x>> \in {<<3, 3>>, <<4, 4>>} THEN -1
      ELSE IF <<y, x>> \in {<<3, 4>>, <<4, 3>>} THEN 1
      ELSE 0]]

\* Board::new with each color on a row of its own
BoardNewRows ==
  [y \in 0..7 |-> [x \in 0..7 |->
      IF <<y, x>> \in {<<3, 3>>, <<3, 4>>} THEN 1
      ELSE IF <<y, x>> \in {<<4, 3>>, <<4, 4>>} THEN -1
      ELSE 0]]

BoardNew ==
  [y \in 0..7 |-> [x \in 0..7 |->
      IF <<y, x>> \in {<<3, 3>>, <<4, 4>>} THEN WHITE
      ELSE IF <<y, x>> \in {<<3, 4>>, <<4, 3>>} THEN BLACK
      ELSE 0]]

\* slice.get(i as usize): a negative i8 becomes a huge usize, so exactly the
\* indices 0..7 are found
InSlice(i) == i >= 0 /\ i < 8

\* Board::get: Ok(cell), or Err(CantMoveOffBoard) as ok = FALSE
get(b, pos) ==
  IF ~InSlice(pos[2]) THEN [ok |-> FALSE, cell |-> 0]
  ELSE IF ~InSlice(pos[1]) THEN [ok |-> FALSE, cell |-> 0]
  ELSE [ok |-> TRUE, cell |-> b[pos[2]][pos[1]]]

\* Board::set: the board with the cell written, or Err as ok = FALSE
set(b, pos, color) ==
  IF ~InSlice(pos[2]) THEN [ok |-> FALSE, b |-> b]
  ELSE IF ~InSlice(pos[1]) THEN [ok |-> FALSE, b |-> b]
  ELSE [ok |-> TRUE, b |-> [b EXCEPT ![pos[2]][pos[1]] = color]]

\* the loop of is_legal_move without the seen_opp_piece test
RECURSIVE LegalWalkNoOpp(_, _, _, _, _)
LegalWalkNoOpp(b, color, looking, d, seen_opp_piece) ==
  LET c == get(b, looking) IN
  IF ~c.ok THEN FALSE
  ELSE IF c.cell = 0 THEN FALSE
  ELSE IF c.cell # color THEN LegalWalkNoOpp(b, color, Add(looking, d), d, TRUE)
  ELSE TRUE

\* the loop of is_legal_move for one direction: TRUE for "return true",
\* FALSE for "break"
RECURSIVE LegalWalk(_, _, _, _, _)
LegalWalk(b, color, looking, d, seen_opp_piece) ==
  LET c == get(b, looking) IN
  IF ~c.ok THEN FALSE
  ELSE IF c.cell = 0 THEN FALSE
  ELSE IF c.cell # color THEN LegalWalk(b, color, Add(looking, d), d, TRUE)
  ELSE seen_opp_piece

is_legal_move(b, color, pos) ==
  LET value == get(b, pos) IN
  IF ~value.ok THEN FALSE
  ELSE IF value.cell # 0 THEN FALSE
  ELSE \E i \in 1..Len(Directions) :
         LegalWalk(b, color, Add(pos, Directions[i]), Directions[i], FALSE)

\* "for y in 0..8 { for x in 0..8 {" over the first n rows and columns: the
\* legal cells in the order they are pushed, which is that of 8 * y + x
ScanMoves(b, color, n) ==
  LET pushed == {i \in 0..63 : /\ i % 8 < n
                               /\ i \div 8 < n
                               /\ is_legal_move(b, color, <<i % 8, i \div 8>>)}
      at(k) == CHOOSE i \in pushed : Cardinality({j \in pushed : j < i}) = k - 1
  IN [k \in 1..Cardinality(pushed) |-> <<at(k) % 8, at(k) \div 8>>]

\* legal_moves scanning rows and columns 0..6 only
legal_movesShort(b, color) == ScanMoves(b, color, 7)

\* Board::legal_moves: the Vec, in row-major order
legal_moves(b, color) == ScanMoves(b, color, 8)

\* game_over with "or" for "and"
game_overEither(b) == legal_moves(b, WHITE) = <<>> \/ legal_moves(b, BLACK) = <<>>

game_over(b) == legal_moves(b, WHITE) = <<>> /\ legal_moves(b, BLACK) = <<>>

\* score counting every cell that is not WHITE as black
scoreElse(b) ==
  << Cardinality({p \in Cells : b[p[2]][p[1]] = WHITE}),
     Cardinality({p \in Cells : b[p[2]][p[1]] # WHITE}) >>

\* Board::score: <<white, black>>
score(b) ==
  << Cardinality({p \in Cells : b[p[2]][p[1]] = WHITE}),
     Cardinality({p \in Cells : b[p[2]][p[1]] = BLACK}) >>

\* the while-let loop of play flipping a run that ends at an empty cell too
RECURSIVE FlipWalkOpenEnded(_, _, _, _, _)
FlipWalkOpenEnded(b, color, looking, d, to_flip) ==
  LET c == get(b, looking) IN
  IF ~c.ok THEN [to_flip |-> to_flip, closed |-> FALSE]
  ELSE IF c.cell = 0 THEN [to_flip |-> to_flip, closed |-> TRUE]
  ELSE IF c.cell # color
    THEN FlipWalkOpenEnded(b, color, Add(looking, d), d, Append(to_flip, looking))
  ELSE [to_flip |-> to_flip, closed |-> TRUE]

\* the while-let loop of play for one direction: the cells pushed to to_flip
\* and whether the walk ended on a cell of the moving color
RECURSIVE FlipWalk(_, _, _, _, _)
FlipWalk(b, color, looking, d, to_flip) ==
  LET c == get(b, looking) IN
  IF ~c.ok THEN [to_flip |-> to_flip, closed |-> FALSE]
  ELSE IF c.cell = 0 THEN [to_flip |-> to_flip, closed |-> FALSE]
  ELSE IF c.cell # color
    THEN FlipWalk(b, color, Add(looking, d), d, Append(to_flip, looking))
  ELSE [to_flip |-> to_flip, closed |-> TRUE]

\* for p in to_flip { self.set(p, color)?; }: st.ok = FALSE once a set failed
RECURSIVE SetAll(_, _, _)
SetAll(st, to_flip, color) ==
  IF ~st.ok \/ to_flip = <<>> THEN st
  ELSE SetAll(set(st.b, Head(to_flip), color), Tail(to_flip), color)

\* the body of "for d in Direction::all()" in play, from direction i on:
\* st.b is the board so far, st.flipped_any the flag, st.ok = FALSE once a
\* set returned Err (the ? operator leaves play there)
RECURSIVE FlipDirections(_, _, _, _)
FlipDirections(st, color, pos, i) ==
  IF i > Len(Directions) \/ ~st.ok THEN st
  ELSE LET w == FlipWalk(st.b, color, Add(pos, Directions[i]), Directions[i], <<>>)
           flips == w.closed /\ w.to_flip # <<>>
           after == IF flips THEN SetAll([ok |-> TRUE, b |-> st.b], w.to_flip, color)
                    ELSE [ok |-> TRUE, b |-> st.b]
       IN FlipDirections(
            [ok |-> after.ok, b |-> after.b,
             flipped_any |-> st.flipped_any \/ (flips /\ after.ok)],
            color, pos, i + 1)

\* play without the test of is_legal_move in front: an empty cell is filled
\* before it is known whether anything is turned over
playUnguarded(b, color, pos) ==
  IF ~get(b, pos).ok THEN [res |-> "CantMoveOffBoard", b |-> b]
  ELSE IF b[pos[2]][pos[1]] = 0
  THEN LET placed == [b EXCEPT ![pos[2]][pos[1]] = color]
           st == FlipDirections(
                   [ok |-> TRUE, b |-> placed, flipped_any |-> FALSE],
                   color, pos, 1)
       IN IF st.ok /\ st.flipped_any THEN [res |-> "Ok", b |-> st.b]
          ELSE [res |-> "DoesntTurnOver", b |-> st.b]
  ELSE [res |-> "CellOccupied", b |-> b]

\* Board::play: the result and the board it leaves behind
play(b, color, pos) ==
  IF is_legal_move(b, color, pos)
  THEN IF b[pos[2]][pos[1]] = 0
       THEN LET placed == [b EXCEPT ![pos[2]][pos[1]] = color]
                st == FlipDirections(
                        [ok |-> TRUE, b |-> placed, flipped_any |-> FALSE],
                        color, pos, 1)
                final == set(st.b, pos, color)
            IN IF ~st.ok THEN [res |-> "CantMoveOffBoard", b |-> st.b]
               ELSE IF st.flipped_any
               THEN IF final.ok THEN [res |-> "Ok", b |-> final.b]
                    ELSE [res |-> "CantMoveOffBoard", b |-> st.b]
               ELSE [res |-> "DoesntTurnOver", b |-> st.b]
       ELSE [res |-> "CellOccupied", b |-> b]
  ELSE [res |-> "DoesntTurnOver", b |-> b]

\* the board of the recorded game after its first 55 plays, row by row
EndgameRows ==
  << <<-1,  1, -1,  0,  1,  1,  0,  0>>,
     <<-1, -1, -1, -1, -1, -1,  1, -1>>,
     <<-1, -1,  1,  1,  1,  1,  0,  1>>,
     <<-1, -1, -1, -1, -1,  1,  1,  1>>,
     <<-1,  1,  1, -1, -1, -1,  1,  1>>,
     <<-1,  1,  1,  1, -1, -1,  1,  1>>,
     << 1, -1, -1,  1,  1,  1,  1,  1>>,
     << 1, -1, -1,  1,  1,  1,  0,  1>> >>

EndgameBoard == [y \in 0..7 |-> [x \in 0..7 |-> EndgameRows[y + 1][x + 1]]]

EndgameStart == Len(RecordedGame) - 5

\* the board (as a one-element set) after the first k plays of the recorded
\* game, k >= EndgameStart
RECURSIVE Replay(_)
Replay(k) ==
  IF k <= EndgameStart THEN {EndgameBoard}
  ELSE {play(b, RecordedGame[k][1], RecordedGame[k][2]).b : b \in Replay(k - 1)}

(***************************************************************************)
(* The board under a sequence of play calls                                *)
(***************************************************************************)
BoardInit ==
  /\ board = BoardNew
  /\ prevBoard = BoardNew
  /\ lastColor = 0
  /\ lastPos = <<0, 0>>
  /\ lastResult = "none"
  /\ okCalls = 0
  /\ onLine = TRUE

\* no search is running
MctsIdle ==
  /\ root_state = BoardNew
  /\ player = WHITE
  /\ iterations = 0
  /\ nodes = <<>>
  /\ pc = "idle"
  /\ node = 0
  /\ iter = 0
  /\ rstate = BoardNew
  /\ rplayer = WHITE
  /\ result2 = 0
  /\ ret = <<>>
  /\ playRes = "none"
  /\ preNodes = <<>>
  /\ bpNode = 0
  /\ rstart = BoardNew
  /\ rturns = 0
  /\ rplays = 0
  /\ rskips = 0
  /\ exNodes = <<>>
  /\ exNode = 0

\* no Game exists
GameIdle ==
  /\ current_turn = WHITE
  /\ gpc = "idle"
  /\ turnStart = WHITE
  /\ turnKind = "none"
  /\ gskips = 0

Init == BoardInit /\ MctsIdle /\ GameIdle

\* the call follows the recorded game
Recorded(color, pos) ==
  /\ onLine
  /\ okCalls < Len(RecordedGame)
  /\ RecordedGame[okCalls + 1] = <<color, pos>>

\* one call board.play(color, pos)
Play(color, pos) ==
  LET r == play(board, color, pos) IN
  /\ IF r.res = "Ok"
     THEN okCalls < MaxFree \/ Recorded(color, pos)
     ELSE pos \in Probes
  /\ board' = r.b
  /\ prevBoard' = board
  /\ lastColor' = color
  /\ lastPos' = pos
  /\ lastResult' = r.res
  /\ okCalls' = IF r.res = "Ok" THEN okCalls + 1 ELSE okCalls
  /\ onLine' = IF r.res = "Ok" THEN Recorded(color, pos) ELSE onLine
  /\ UNCHANGED <<mctsVars, gameVars>>

Next == \E color \in Colors, pos \in Coords : Play(color, pos)

\* the recorded game passes through EndgameBoard
EndgameBoardIsRecorded ==
  (onLine /\ okCalls = EndgameStart) => board = EndgameBoard

Spec == Init /\ [][Next]_vars

(***************************************************************************)
(* The Board of src/src/main.rs, the entry point of the crate: a type of   *)
(* its own, with the same representation.  Its definitions are prefixed    *)
(* with main_.  Its errors are all Err(()); a panic is the result "panic". *)
(***************************************************************************)
\* Board::new
main_BoardNew ==
  [y \in 0..7 |-> [x \in 0..7 |->
      IF <<y, x>> \in {<<3, 3>>, <<4, 4>>} THEN WHITE
      ELSE IF <<y, x>> \in {<<3, 4>>, <<4, 3>>} THEN BLACK
      ELSE 0]]

\* Board::get: Ok(cell), or Err(()) as ok = FALSE
main_get(b, pos) ==
  IF ~InSlice(pos[2]) THEN [ok |-> FALSE, cell |-> 0]
  ELSE IF ~InSlice(pos[1]) THEN [ok |-> FALSE, cell |-> 0]
  ELSE [ok |-> TRUE, cell |-> b[pos[2]][pos[1]]]

\* Board::set: the board with the cell written, or Err(()) as ok = FALSE
main_set(b, pos, color) ==
  IF ~InSlice(pos[2]) THEN [ok |-> FALSE, b |-> b]
  ELSE IF ~InSlice(pos[1]) THEN [ok |-> FALSE, b |-> b]
  ELSE [ok |-> TRUE, b |-> [b EXCEPT ![pos[2]][pos[1]] = color]]

\* the loop of is_legal_move for one direction: TRUE for "return true",
\* FALSE for "break"
RECURSIVE main_LegalWalk(_, _, _, _, _)
main_LegalWalk(b, color, looking, d, seen_opp_piece) ==
  LET c == main_get(b, looking) IN
  IF ~c.ok THEN FALSE
  ELSE IF c.cell = 0 THEN FALSE
  ELSE IF c.cell # color THEN main_LegalWalk(b, color, Add(looking, d), d, TRUE)
  ELSE seen_opp_piece

\* Board::is_legal_move: self.get(pos).unwrap() panics off the board
main_is_legal_move(b, color, pos) ==
  LET value == main_get(b, pos) IN
  IF ~value.ok THEN [panic |-> TRUE, legal |-> FALSE]
  ELSE IF value.cell # 0 THEN [panic |-> FALSE, legal |-> FALSE]
  ELSE [panic |-> FALSE,
        legal |-> \E i \in 1..Len(Directions) :
                    main_LegalWalk(b, color, Add(pos, Directions[i]), Directions[i], FALSE)]

\* the while-let loop of play for one direction: the cells pushed to to_flip
\* and whether the walk ended on a cell of the moving color
RECURSIVE main_FlipWalk(_, _, _, _, _)
main_FlipWalk(b, color, looking, d, to_flip) ==
  LET c == main_get(b, looking) IN
  IF ~c.ok THEN [to_flip |-> to_flip, closed |-> FALSE]
  ELSE IF c.cell = 0 THEN [to_flip |-> to_flip, closed |-> FALSE]
  ELSE IF c.cell # color
    THEN main_FlipWalk(b, color, Add(looking, d), d, Append(to_flip, looking))
  ELSE [to_flip |-> to_flip, closed |-> TRUE]

\* for p in to_flip { self.set(p, color)?; }: st.ok = FALSE once a set failed
RECURSIVE main_SetAll(_, _, _)
main_SetAll(st, to_flip, color) ==
  IF ~st.ok \/ to_flip = <<>> THEN st
  ELSE main_SetAll(main_set(st.b, Head(to_flip), color), Tail(to_flip), color)

\* the body of "for d in Direction::all()" in play, from direction i on
RECURSIVE main_FlipDirections(_, _, _, _)
main_FlipDirections(st, color, pos, i) ==
  IF i > Len(Directions) \/ ~st.ok THEN st
  ELSE LET w == main_FlipWalk(st.b, color, Add(pos, Directions[i]), Directions[i], <<>>)
           flips == w.closed /\ w.to_flip # <<>>
           after == IF flips THEN main_SetAll([ok |-> TRUE, b |-> st.b], w.to_flip, color)
                    ELSE [ok |-> TRUE, b |-> st.b]
       IN main_FlipDirections(
            [ok |-> after.ok, b |-> after.b,
             flipped_any |-> st.flipped_any \/ (flips /\ after.ok)],
            color, pos, i + 1)

\* Board::play: the result and the board it leaves behind.  The cell tested
\* and filled first is self.0[pos.0][pos.1], the row pos.0 and the column
\* pos.1, while get and set use the row pos.1 and the column pos.0.
main_play(b, color, pos) ==
  LET legal == main_is_legal_move(b, color, pos) IN
  IF legal.panic THEN [res |-> "panic", b |-> b]
  ELSE IF legal.legal
  THEN IF b[pos[1]][pos[2]] = 0
       THEN LET placed == [b EXCEPT ![pos[1]][pos[2]] = color]
                st == main_FlipDirections(
                        [ok |-> TRUE, b |-> placed, flipped_any |-> FALSE],
                        color, pos, 1)
                final == main_set(st.b, pos, color)
            IN IF ~st.ok THEN [res |-> "Err", b |-> st.b]
               ELSE IF st.flipped_any
               THEN IF final.ok THEN [res |-> "Ok", b |-> final.b]
                    ELSE [res |-> "Err", b |-> st.b]
               ELSE [res |-> "Err", b |-> st.b]
       ELSE [res |-> "Err", b |-> b]
  ELSE [res |-> "Err", b |-> b]

\* let mut board = Board::new(); in main
InitMain ==
  /\ board = main_BoardNew
  /\ prevBoard = main_BoardNew
  /\ lastColor = 0
  /\ lastPos = <<0, 0>>
  /\ lastResult = "none"
  /\ okCalls = 0
  /\ onLine = TRUE
  /\ MctsIdle
  /\ GameIdle

\* one call board.play(color, pos) on the Board of main.rs; main itself makes
\* the call play(WHITE, PointVec(5, 3))
MainPlay(color, pos) ==
  LET r == main_play(board, color, pos) IN
  /\ IF r.res = "Ok" THEN okCalls < MaxFree ELSE pos \in Probes
  /\ board' = r.b
  /\ prevBoard' = board
  /\ lastColor' = color
  /\ lastPos' = pos
  /\ lastResult' = r.res
  /\ okCalls' = IF r.res = "Ok" THEN okCalls + 1 ELSE okCalls
  /\ UNCHANGED onLine
  /\ UNCHANGED <<mctsVars, gameVars>>

NextMain == \E color \in Colors, pos \in Coords : MainPlay(color, pos)

SpecMain == InitMain /\ [][NextMain]_vars

(***************************************************************************)
(* Game (src/src/othello.rs): a Board and the color whose turn it is.      *)
(* The variables board and current_turn are its two fields.                *)
(***************************************************************************)
\* play_turn advancing the turn itself after a successful play
play_turnAdvances(g, pos) ==
  LET r == play(g.board, g.current_turn, pos) IN
  [res |-> r.res,
   g |-> [board |-> r.b,
          current_turn |-> IF r.res = "Ok" THEN Opposite(g.current_turn)
                           ELSE g.current_turn]]

\* Game::play_turn on the game g: the result and the game it leaves behind
play_turn(g, pos) ==
  LET r == play(g.board, g.current_turn, pos) IN
  [res |-> r.res, g |-> [board |-> r.b, current_turn |-> g.current_turn]]

\* Game::new(), ready to be used
InitG ==
  /\ BoardInit
  /\ MctsIdle
  /\ current_turn = WHITE
  /\ gpc = "ready"
  /\ turnStart = WHITE
  /\ turnKind = "none"
  /\ gskips = 0

\* the call self.play_turn(pos) and what it leaves in the variables
CallPlayTurn(pos) ==
  LET r == play_turn([board |-> board, current_turn |-> current_turn], pos) IN
  /\ IF r.res = "Ok"
     THEN okCalls < MaxFree \/ Recorded(current_turn, pos)
     ELSE pos \in Probes
  /\ board' = r.g.board
  /\ current_turn' = r.g.current_turn
  /\ prevBoard' = board
  /\ lastColor' = current_turn
  /\ lastPos' = pos
  /\ lastResult' = r.res
  /\ okCalls' = IF r.res = "Ok" THEN okCalls + 1 ELSE okCalls
  /\ onLine' = IF r.res = "Ok" THEN Recorded(current_turn, pos) ELSE onLine
  /\ turnStart' = current_turn

\* game.play_turn(pos) called on its own
PlayTurn(pos) ==
  /\ gpc = "ready"
  /\ CallPlayTurn(pos)
  /\ turnKind' = "called"
  /\ UNCHANGED <<gpc, gskips>>
  /\ UNCHANGED mctsVars

\* game.play_whole_game() is called
WholeGame ==
  /\ gpc = "ready"
  /\ gpc' = "loop"
  /\ turnKind' = "none"
  /\ UNCHANGED <<current_turn, turnStart, gskips>>
  /\ UNCHANGED <<boardVars, mctsVars>>

\* play_whole_game: a turn of the loop in which the color to move has no
\* legal move
GameSkip ==
  /\ gpc = "loop"
  /\ ~game_over(board)
  /\ Len(legal_moves(board, current_turn)) = 0
  /\ current_turn' = Opposite(current_turn)
  /\ turnStart' = current_turn
  /\ turnKind' = "skip"
  /\ gskips' = IF gskips < 2 THEN gskips + 1 ELSE gskips
  /\ UNCHANGED gpc
  /\ UNCHANGED <<boardVars, mctsVars>>

\* play_whole_game: a turn in which the color to move has a legal move and is
\* asked for it
GamePrompt ==
  /\ gpc = "loop"
  /\ ~game_over(board)
  /\ Len(legal_moves(board, current_turn)) # 0
  /\ gpc' = "input"
  /\ turnStart' = current_turn
  /\ UNCHANGED <<current_turn, turnKind, gskips>>
  /\ UNCHANGED <<boardVars, mctsVars>>

\* play_whole_game: read_line fails and the ? operator returns Err(())
GameReadFails ==
  /\ gpc = "input"
  /\ gpc' = "failed"
  /\ UNCHANGED <<current_turn, turnStart, turnKind, gskips>>
  /\ UNCHANGED <<boardVars, mctsVars>>

\* play_whole_game: the line read has no x or no y that parses as an i8
GameInvalid ==
  /\ gpc = "input"
  /\ gpc' = "loop"
  /\ turnKind' = "invalid"
  /\ gskips' = 0
  /\ UNCHANGED <<current_turn, turnStart>>
  /\ UNCHANGED <<boardVars, mctsVars>>

\* play_whole_game: x and y parse; self.play_turn(pos)
GamePlay(pos) ==
  /\ gpc = "input"
  /\ CallPlayTurn(pos)
  /\ gpc' = "match"
  /\ UNCHANGED <<turnKind, gskips>>
  /\ UNCHANGED mctsVars

\* play_whole_game: the match on the result of play_turn, which ends the turn
GameMatch ==
  /\ gpc = "match"
  /\ IF lastResult = "Ok"
     THEN current_turn' = Opposite(current_turn) /\ turnKind' = "accepted"
     ELSE current_turn' = current_turn /\ turnKind' = "rejected"
  /\ gskips' = 0
  /\ gpc' = "loop"
  /\ UNCHANGED turnStart
  /\ UNCHANGED <<boardVars, mctsVars>>

\* play_whole_game: the loop ends and Ok(()) is returned
GameOver ==
  /\ gpc = "loop"
  /\ game_over(board)
  /\ gpc' = "over"
  /\ UNCHANGED <<current_turn, turnStart, turnKind, gskips>>
  /\ UNCHANGED <<boardVars, mctsVars>>

NextG ==
  \/ \E pos \in Coords : PlayTurn(pos)
  \/ WholeGame
  \/ GameSkip
  \/ GamePrompt
  \/ GameReadFails
  \/ GameInvalid
  \/ \E pos \in Coords : GamePlay(pos)
  \/ GameMatch
  \/ GameOver

SpecG == InitG /\ [][NextG]_vars

(***************************************************************************)
(* MCTSNode (src/src/mcts.rs).  Option values are None = <<>> and          *)
(* Some(x) = <<x>>.  wins is kept doubled in wins2: every rollout result   *)
(* is 0.0, 0.5 or 1.0, so wins is always a multiple of 0.5 and the f64     *)
(* sums are exact.                                                         *)
(***************************************************************************)
None == <<>>

Some(x) == <<x>>

\* a node that counts its creation as a visit
MCTSNodeVisited(state, color, parent, action) ==
  [state |-> state, player |-> color, parent |-> parent, children |-> <<>>,
   action |-> action, visits |-> 1, wins2 |-> 0,
   untried_actions |-> legal_moves(state, color)]

\* MCTSNode::new
MCTSNode(state, color, parent, action) ==
  [state |-> state, player |-> color, parent |-> parent, children |-> <<>>,
   action |-> action, visits |-> 0, wins2 |-> 0,
   untried_actions |-> legal_moves(state, color)]

is_terminal(n) == game_over(n.state)

is_fully_expanded(n) == Len(n.untried_actions) = 0

\* expand reading the last untried action without removing it
expandKeepsAction(ns, n) ==
  LET self == ns[n]
      len == Len(self.untried_actions)
  IN IF len = 0 THEN [nodes |-> ns, child |-> None, res |-> "none"]
     ELSE LET action == self.untried_actions[len]
              r == play(self.state, self.player, action)
              next_player == Opposite(self.player)
              child == MCTSNode(r.b, next_player, Some(n), Some(action))
          IN [nodes |-> Append([ns EXCEPT ![n].children = Append(@, Len(ns) + 1)],
                               child),
              child |-> Some(Len(ns) + 1),
              res |-> r.res]

\* expand giving the child the turn only if it has a legal move
expandKeepsTurn(ns, n) ==
  LET self == ns[n]
      len == Len(self.untried_actions)
  IN IF len = 0 THEN [nodes |-> ns, child |-> None, res |-> "none"]
     ELSE LET action == self.untried_actions[len]
              r == play(self.state, self.player, action)
              next_player == IF legal_moves(r.b, Opposite(self.player)) = <<>>
                             THEN self.player
                             ELSE Opposite(self.player)
              child == MCTSNode(r.b, next_player, Some(n), Some(action))
          IN [nodes |-> Append([ns EXCEPT ![n].untried_actions = SubSeq(@, 1, len - 1),
                                          ![n].children = Append(@, Len(ns) + 1)],
                               child),
              child |-> Some(Len(ns) + 1),
              res |-> r.res]

\* expand playing the action for the color of the child
expandWrongColor(ns, n) ==
  LET self == ns[n]
      len == Len(self.untried_actions)
  IN IF len = 0 THEN [nodes |-> ns, child |-> None, res |-> "none"]
     ELSE LET action == self.untried_actions[len]
              next_player == Opposite(self.player)
              r == play(self.state, next_player, action)
              child == MCTSNode(r.b, next_player, Some(n), Some(action))
          IN [nodes |-> Append([ns EXCEPT ![n].untried_actions = SubSeq(@, 1, len - 1),
                                          ![n].children = Append(@, Len(ns) + 1)],
                               child),
              child |-> Some(Len(ns) + 1),
              res |-> r.res]

\* MCTSNode::expand on node n of the tree ns: the tree after it, the child
\* returned and the (discarded) result of the play
expand(ns, n) ==
  LET self == ns[n]
      len == Len(self.untried_actions)
  IN IF len = 0 THEN [nodes |-> ns, child |-> None, res |-> "none"]
     ELSE LET action == self.untried_actions[len]
              r == play(self.state, self.player, action)
              next_player == Opposite(self.player)
              child == MCTSNode(r.b, next_player, Some(n), Some(action))
          IN [nodes |-> Append([ns EXCEPT ![n].untried_actions = SubSeq(@, 1, len - 1),
                                          ![n].children = Append(@, Len(ns) + 1)],
                               child),
              child |-> Some(Len(ns) + 1),
              res |-> r.res]

\* floor(10^6 * sqrt(2 * ln(N) / v)) at UcbTerm[N][v]: the exploration term
\* SQRT_2 * sqrt(ln(self.visits) / child.visits) of best_child
UcbTerm ==
  << <<0, 0, 0, 0, 0, 0, 0, 0>>,
     <<1177410, 832554, 679777, 588705, 526553, 480675, 445019, 416277>>,
     <<1482303, 1048147, 855808, 741151, 662906, 605147, 560258, 524073>>,
     <<1665109, 1177410, 961351, 832554, 744659, 679777, 629352, 588705>>,
     <<1794122, 1268636, 1035837, 897061, 802356, 732447, 678114, 634318>>,
     <<1893018, 1338566, 1092934, 946509, 846583, 772821, 715493, 669283>>,
     <<1972769, 1394958, 1138979, 986384, 882249, 805379, 745636, 697479>>,
     <<2039333, 1442026, 1177410, 1019666, 912017, 832554, 770795, 721013>> >>

\* c * sqrt(ln(N) / v) in millionths, for c * c = c2 in {0, 2}
Explore(N, v, c2) == IF c2 = 0 THEN 0 ELSE UcbTerm[N][v]

\* wins / visits + c * sqrt(ln(N) / visits) is NaN: ln(0) = -inf has no
\* square root, 0/0 is NaN and 0 * inf is NaN
ScoreIsNaN(N, v, w2, c2) == N = 0 \/ (v = 0 /\ (w2 = 0 \/ N = 1 \/ c2 = 0))

\* the score is +inf (a division by zero visits that is not NaN)
ScoreIsInf(N, v, w2, c2) == ~ScoreIsNaN(N, v, w2, c2) /\ v = 0

\* ucb1_a.partial_cmp(&ucb1_b) for children a and b of node n: the sign of
\* ucb1_a - ucb1_b, or "NaN" where partial_cmp is None and unwrap panics.
\* For finite scores the sign is that of
\*   (wa/(2 va) - wb/(2 vb) + ta - tb) * 10^6 * va * vb.
Compare(ns, n, a, b, c2) ==
  LET N == ns[n].visits
      va == ns[a].visits
      vb == ns[b].visits
      wa == ns[a].wins2
      wb == ns[b].wins2
      d == (wa * vb - wb * va) * 500000
             + (Explore(N, va, c2) - Explore(N, vb, c2)) * va * vb
  IN IF ScoreIsNaN(N, va, wa, c2) \/ ScoreIsNaN(N, vb, wb, c2) THEN "NaN"
     ELSE IF ScoreIsInf(N, va, wa, c2) /\ ScoreIsInf(N, vb, wb, c2) THEN "Equal"
     ELSE IF ScoreIsInf(N, va, wa, c2) THEN "Greater"
     ELSE IF ScoreIsInf(N, vb, wb, c2) THEN "Less"
     ELSE IF d > 0 THEN "Greater"
     ELSE IF d < 0 THEN "Less"
     ELSE "Equal"

\* a fold that keeps the first of several maximal elements
RECURSIVE MaxByFirst(_, _, _, _, _)
MaxByFirst(ns, n, c2, best, i) ==
  IF i > Len(ns[n].children) THEN [found |-> Some(best), panic |-> FALSE]
  ELSE LET next == ns[n].children[i]
           cmp == Compare(ns, n, best, next, c2)
       IN IF cmp = "NaN" THEN [found |-> None, panic |-> TRUE]
          ELSE MaxByFirst(ns, n, c2, IF cmp = "Less" THEN next ELSE best, i + 1)

\* Iterator::max_by over children[i..], best being the maximum so far: the
\* standard library keeps best only when compare(best, next) is Greater
RECURSIVE MaxBy(_, _, _, _, _)
MaxBy(ns, n, c2, best, i) ==
  IF i > Len(ns[n].children) THEN [found |-> Some(best), panic |-> FALSE]
  ELSE LET next == ns[n].children[i]
           cmp == Compare(ns, n, best, next, c2)
       IN IF cmp = "NaN" THEN [found |-> None, panic |-> TRUE]
          ELSE MaxBy(ns, n, c2, IF cmp = "Greater" THEN best ELSE next, i + 1)

\* best_child returning None for a single child too
best_childOffByOne(ns, n, c2) ==
  IF Len(ns[n].children) <= 1 THEN [found |-> None, panic |-> FALSE]
  ELSE MaxBy(ns, n, c2, ns[n].children[1], 2)

\* MCTSNode::best_child(c) with c * c = c2
best_child(ns, n, c2) ==
  IF Len(ns[n].children) = 0 THEN [found |-> None, panic |-> FALSE]
  ELSE MaxBy(ns, n, c2, ns[n].children[1], 2)

\* the result always taken for WHITE
RolloutResultWhite(sc, color) ==
  LET white == sc[1]
      black == sc[2]
  IN IF white > black THEN 2 ELSE IF white = black THEN 1 ELSE 0

\* the end of rollout: the result, doubled, for the node's own player
RolloutResult(sc, color) ==
  LET white == sc[1]
      black == sc[2]
  IN IF color = WHITE
     THEN (IF white > black THEN 2 ELSE IF white = black THEN 1 ELSE 0)
     ELSE (IF black > white THEN 2 ELSE IF black = white THEN 1 ELSE 0)

\* backpropagate that stops at the node it is called on
backpropagateNoParent(ns, n, r2) ==
  [ns EXCEPT ![n].visits = @ + 1, ![n].wins2 = @ + r2]

\* backpropagate handing its own result to the parent
RECURSIVE backpropagateSame(_, _, _)
backpropagateSame(ns, n, r2) ==
  LET ns1 == [ns EXCEPT ![n].visits = @ + 1, ![n].wins2 = @ + r2] IN
  IF ns[n].parent # None
  THEN backpropagateSame(ns1, ns[n].parent[1], r2)
  ELSE ns1

\* MCTSNode::backpropagate(result) on node n, with r2 = 2 * result
RECURSIVE backpropagate(_, _, _)
backpropagate(ns, n, r2) ==
  LET ns1 == [ns EXCEPT ![n].visits = @ + 1, ![n].wins2 = @ + r2] IN
  IF ns[n].parent # None
  THEN backpropagate(ns1, ns[n].parent[1], 2 - r2)
  ELSE ns1

(***************************************************************************)
(* mcts_search                                                             *)
(***************************************************************************)
RootBoards ==
  UNION {Replay(k) : k \in (Len(RecordedGame) - MaxEmpty)..Len(RecordedGame)}

\* mcts_search(root_state, player, iterations) has built its root
InitM ==
  /\ BoardInit
  /\ GameIdle
  /\ root_state \in RootBoards
  /\ player \in Colors
  /\ iterations \in 0..MaxIter
  /\ nodes = <<MCTSNode(root_state, player, None, None)>>
  /\ pc = "start"
  /\ node = 1
  /\ iter = 0
  /\ rstate = root_state
  /\ rplayer = player
  /\ result2 = 0
  /\ ret = None
  /\ playRes = "none"
  /\ preNodes = <<>>
  /\ bpNode = 0
  /\ rstart = root_state
  /\ rturns = 0
  /\ rplays = 0
  /\ rskips = 0
  /\ exNodes = <<>>
  /\ exNode = 0

\* if root.untried_actions.is_empty() { return None; }
Start ==
  /\ UNCHANGED <<boardVars, gameVars>>
  /\ pc = "start"
  /\ IF Len(nodes[1].untried_actions) = 0
     THEN pc' = "done" /\ ret' = None
     ELSE pc' = "loop" /\ ret' = ret
  /\ UNCHANGED <<root_state, player, iterations, nodes, node, iter, rstate,
                 rplayer, result2, playRes, preNodes, bpNode>>
  /\ UNCHANGED traceVars

\* the selection loop of one iteration, from the root
RECURSIVE Descend(_, _)
Descend(ns, n) ==
  IF ~is_terminal(ns[n]) /\ is_fully_expanded(ns[n])
  THEN LET best == best_child(ns, n, 2) IN
       IF best.panic THEN [node |-> n, panic |-> TRUE]
       ELSE IF best.found = None THEN [node |-> n, panic |-> FALSE]
       ELSE Descend(ns, best.found[1])
  ELSE [node |-> n, panic |-> FALSE]

Select ==
  /\ UNCHANGED <<boardVars, gameVars>>
  /\ pc = "loop"
  /\ iter < iterations
  /\ LET sel == Descend(nodes, 1) IN
       /\ node' = sel.node
       /\ pc' = IF sel.panic THEN "panic" ELSE "expand"
  /\ UNCHANGED <<root_state, player, iterations, nodes, iter, rstate, rplayer,
                 result2, ret, playRes, preNodes, bpNode>>
  /\ UNCHANGED traceVars

\* if !(*node).is_terminal() { if let Some(child) = (*node).expand() { node = child } }
\* and the first lines of rollout
Expand ==
  /\ UNCHANGED <<boardVars, gameVars>>
  /\ pc = "expand"
  /\ LET e == IF ~is_terminal(nodes[node]) THEN expand(nodes, node)
              ELSE [nodes |-> nodes, child |-> None, res |-> "none"]
         at == IF e.child # None THEN e.child[1] ELSE node
     IN /\ nodes' = e.nodes
        /\ node' = at
        /\ playRes' = IF e.res = "none" THEN playRes ELSE e.res
        /\ rstate' = e.nodes[at].state
        /\ rplayer' = e.nodes[at].player
        /\ rstart' = e.nodes[at].state
  /\ rturns' = 0
  /\ rplays' = 0
  /\ rskips' = 0
  /\ exNodes' = nodes
  /\ exNode' = node
  /\ pc' = "rollout"
  /\ UNCHANGED <<root_state, player, iterations, iter, result2, ret, preNodes, bpNode>>

\* a skipped turn that leaves the same side to move
RolloutSkipStay ==
  /\ UNCHANGED <<boardVars, gameVars>>
  /\ pc = "rollout"
  /\ ~game_over(rstate)
  /\ Len(legal_moves(rstate, rplayer)) = 0
  /\ rplayer' = rplayer
  /\ rskips' = IF rskips < 2 THEN rskips + 1 ELSE rskips
  /\ rturns' = rturns + 1
  /\ UNCHANGED <<root_state, player, iterations, nodes, pc, node, iter, rstate,
                 result2, ret, playRes, preNodes, bpNode>>
  /\ UNCHANGED <<rstart, rplays, exNodes, exNode>>

\* rollout: one turn of its loop with no move for the side to move
RolloutSkip ==
  /\ UNCHANGED <<boardVars, gameVars>>
  /\ pc = "rollout"
  /\ ~game_over(rstate)
  /\ Len(legal_moves(rstate, rplayer)) = 0
  /\ rplayer' = Opposite(rplayer)
  /\ rskips' = IF rskips < 2 THEN rskips + 1 ELSE rskips
  /\ rturns' = rturns + 1
  /\ UNCHANGED <<root_state, player, iterations, nodes, pc, node, iter, rstate,
                 result2, ret, playRes, preNodes, bpNode>>
  /\ UNCHANGED <<rstart, rplays, exNodes, exNode>>

\* rollout: one turn of its loop playing a move chosen at random
RolloutPlay ==
  /\ UNCHANGED <<boardVars, gameVars>>
  /\ pc = "rollout"
  /\ ~game_over(rstate)
  /\ LET moves == legal_moves(rstate, rplayer) IN
     \E i \in 1..Len(moves) :
       LET r == play(rstate, rplayer, moves[i]) IN
       /\ rstate' = r.b
       /\ playRes' = r.res
       /\ rplays' = IF r.res = "Ok" THEN rplays + 1 ELSE rplays
  /\ rplayer' = Opposite(rplayer)
  /\ rskips' = 0
  /\ rturns' = rturns + 1
  /\ UNCHANGED <<root_state, player, iterations, nodes, pc, node, iter,
                 result2, ret, preNodes, bpNode>>
  /\ UNCHANGED <<rstart, exNodes, exNode>>

\* rollout: the loop has ended, the final board is scored
RolloutEnd ==
  /\ UNCHANGED <<boardVars, gameVars>>
  /\ pc = "rollout"
  /\ game_over(rstate)
  /\ result2' = RolloutResult(score(rstate), nodes[node].player)
  /\ pc' = "backprop"
  /\ UNCHANGED <<root_state, player, iterations, nodes, node, iter, rstate,
                 rplayer, ret, playRes, preNodes, bpNode>>
  /\ UNCHANGED traceVars

\* (*node).backpropagate(result), which ends the iteration
Backpropagate ==
  /\ UNCHANGED <<boardVars, gameVars>>
  /\ pc = "backprop"
  /\ preNodes' = nodes
  /\ bpNode' = node
  /\ nodes' = backpropagate(nodes, node, result2)
  /\ iter' = iter + 1
  /\ pc' = "loop"
  /\ UNCHANGED <<root_state, player, iterations, node, rstate, rplayer,
                 result2, ret, playRes>>
  /\ UNCHANGED traceVars

\* root.best_child(0.0).and_then(|n| n.action)
Finish ==
  /\ UNCHANGED <<boardVars, gameVars>>
  /\ pc = "loop"
  /\ iter = iterations
  /\ LET best == best_child(nodes, 1, 0) IN
       /\ pc' = IF best.panic THEN "panic" ELSE "done"
       /\ ret' = IF best.found = None THEN None ELSE nodes[best.found[1]].action
  /\ UNCHANGED <<root_state, player, iterations, nodes, node, iter, rstate,
                 rplayer, result2, playRes, preNodes, bpNode>>
  /\ UNCHANGED traceVars

NextM ==
  \/ Start
  \/ Select
  \/ Expand
  \/ RolloutSkip
  \/ RolloutPlay
  \/ RolloutEnd
  \/ Backpropagate
  \/ Finish

SpecM == InitM /\ [][NextM]_vars

(***************************************************************************)
(* The rules of the game, stated without the walks of the code             *)
(***************************************************************************)
OnBoard(p) == p[1] \in 0..7 /\ p[2] \in 0..7

\* the elements of a Vec
Elems(v) == {v[i] : i \in 1..Len(v)}

At(b, p) == b[p[2]][p[1]]

Step(p, d, j) == <<p[1] + j * d[1], p[2] + j * d[2]>>

DirSet == {Directions[i] : i \in 1..Len(Directions)}

\* from p in direction d: k opponent cells, then a cell of color
Run(b, color, p, d, k) ==
  /\ \A j \in 1..k : OnBoard(Step(p, d, j)) /\ At(b, Step(p, d, j)) = -color
  /\ OnBoard(Step(p, d, k + 1))
  /\ At(b, Step(p, d, k + 1)) = color

Flanks(b, color, p, d) ==
  /\ OnBoard(Step(p, d, 1))
  /\ At(b, Step(p, d, 1)) = -color
  /\ \E k \in 1..6 : Run(b, color, p, d, k)

Capturing(b, color) ==
  {p \in Cells : At(b, p) = 0 /\ \E d \in DirSet : Flanks(b, color, p, d)}

\* the cells of the runs a piece of color at p captures
Captured(b, color, p) ==
  UNION {{Step(p, d, j) : j \in 1..k} :
           <<d, k>> \in {dk \in DirSet \X (1..6) : Run(b, color, p, dk[1], dk[2])}}

Occupied(b) == Cardinality({p \in Cells : At(b, p) # 0})

Called == lastResult # "none"

(***************************************************************************)
(* Claims about Board                                                      *)
(***************************************************************************)
\* C1: on every reachable board, for both colors and every coordinate on or
\* off the board, play returns Ok exactly when the coordinate is an element
\* of legal_moves on the board before the call; so did the call just made.
C1_PlayOkIffLegal ==
  /\ \A color \in Colors :
       LET moves == Elems(legal_moves(board, color)) IN
       \A pos \in Coords : (play(board, color, pos).res = "Ok") <=> (pos \in moves)
  /\ Called => ((lastResult = "Ok") <=> (lastPos \in Elems(legal_moves(prevBoard, lastColor))))

\* C1 witness: calls were made after the opening; the last one succeeded
\* on a coordinate of legal_moves
C1_Witness ==
  /\ lastResult = "Ok"
  /\ okCalls >= 3
  /\ lastPos \in Elems(legal_moves(prevBoard, lastColor))

\* C2: legal_moves holds exactly the empty on-board cells from which some
\* direction meets one or more opponent cells immediately followed by a cell
\* of the moving color; is_legal_move is false off the board.
C2_LegalMovesAreCapturing ==
  /\ \A color \in Colors : Elems(legal_moves(board, color)) = Capturing(board, color)
  /\ \A color \in Colors, pos \in Coords \ Cells : ~is_legal_move(board, color, pos)

\* C2 witness: a board with a move that is legal only through a run of two or
\* more opponent cells, and with an empty cell next to opponent cells that is
\* not legal
C2_Witness ==
  \E color \in Colors :
    /\ \E p \in Elems(legal_moves(board, color)) :
         \A d \in DirSet : Flanks(board, color, p, d) => ~Run(board, color, p, d, 1)
    /\ \E p \in Cells \ Elems(legal_moves(board, color)) :
         /\ At(board, p) = 0
         /\ \E d \in DirSet : OnBoard(Step(p, d, 1)) /\ At(board, Step(p, d, 1)) = -color

\* C3: after a successful play the board differs from the board before in
\* exactly the played cell (empty before, the color after) and the cells of
\* the opponent runs closed by a cell of the moving color (flipped).
C3_PlayFrame ==
  lastResult = "Ok" =>
    LET captured == Captured(prevBoard, lastColor, lastPos) IN
    /\ OnBoard(lastPos)
    /\ At(prevBoard, lastPos) = 0
    /\ \A q \in Cells :
         At(board, q) =
           IF q = lastPos \/ q \in captured THEN lastColor ELSE At(prevBoard, q)
    /\ \A q \in captured : At(prevBoard, q) = -lastColor
    /\ Cardinality({q \in Cells : At(board, q) # At(prevBoard, q)})
         = Cardinality(captured) + 1

\* C3 witness: a successful play that captured in two directions or more and
\* left alone an opponent run ending at an empty cell or at the edge
C3_Witness ==
  /\ lastResult = "Ok"
  /\ Cardinality({d \in DirSet : Flanks(prevBoard, lastColor, lastPos, d)}) >= 2
  /\ \E d \in DirSet :
       /\ ~Flanks(prevBoard, lastColor, lastPos, d)
       /\ OnBoard(Step(lastPos, d, 1))
       /\ At(prevBoard, Step(lastPos, d, 1)) = -lastColor
       /\ At(board, Step(lastPos, d, 1)) = -lastColor

\* C4 as claimed: a failing play returns CellOccupied for an occupied on-board
\* cell, CantMoveOffBoard for a coordinate off the board and DoesntTurnOver
\* for an empty on-board cell that captures nothing.
C4_ErrorKinds ==
  (Called /\ lastResult # "Ok") =>
    /\ (OnBoard(lastPos) /\ At(prevBoard, lastPos) # 0) => lastResult = "CellOccupied"
    /\ ~OnBoard(lastPos) => lastResult = "CantMoveOffBoard"
    /\ (OnBoard(lastPos) /\ At(prevBoard, lastPos) = 0) => lastResult = "DoesntTurnOver"

\* C5: after any sequence of calls, successful or failing, white + black is
\* 4 plus the number of calls that returned Ok; the count never decreases,
\* grows by one per successful play, is at most 64, and is 64 only when no
\* cell is empty.
C5_ScoreCountsOkCalls ==
  LET s == score(board) IN
  /\ s[1] + s[2] = 4 + okCalls
  /\ s[1] + s[2] = Occupied(board)
  /\ Occupied(board) = Occupied(prevBoard) + (IF lastResult = "Ok" THEN 1 ELSE 0)
  /\ s[1] + s[2] <= 64
  /\ (s[1] + s[2] = 64) <=> (\A p \in Cells : At(board, p) # 0)

\* C5 witness: the board was filled by 60 successful plays and a call failed
\* on it
C5_Witness ==
  /\ okCalls = 60
  /\ score(board)[1] + score(board)[2] = 64
  /\ Called /\ lastResult # "Ok"

\* C6: game_over is true exactly when neither color has a capturing move,
\* whether or not empty cells remain; once it is true every play fails and
\* it stays true.
C6_GameOver ==
  /\ game_over(board) <=> (Capturing(board, WHITE) = {} /\ Capturing(board, BLACK) = {})
  /\ (Called /\ game_over(prevBoard)) => (lastResult # "Ok" /\ game_over(board))
  /\ game_over(board) => \A color \in Colors, pos \in Coords :
                            play(board, color, pos).res # "Ok"

\* C6 witness: a call was made on a board that was over with empty cells left
C6_Witness ==
  /\ Called
  /\ game_over(prevBoard)
  /\ \E p \in Cells : At(prevBoard, p) = 0

\* C7 as claimed: on the initial board legal_moves(WHITE) is
\* {(2,3),(3,2),(4,5),(5,4)} and play(WHITE, (2,3)) succeeds, flipping one
\* Black piece, with score (4, 1).
C7_Original ==
  /\ board = BoardNew =>
       Elems(legal_moves(board, WHITE)) = {<<2, 3>>, <<3, 2>>, <<4, 5>>, <<5, 4>>}
  /\ (Called /\ prevBoard = BoardNew /\ lastColor = WHITE /\ lastPos = <<2, 3>>) =>
       (lastResult = "Ok" /\ score(board) = <<4, 1>>)

\* C7 amended: on the initial board legal_moves(WHITE) is
\* {(2,4),(3,5),(4,2),(5,3)}; play(WHITE, (2,4)) succeeds, flips exactly one
\* Black piece and leaves score (4, 1).
C7_OpeningMoves ==
  /\ board = BoardNew =>
       Elems(legal_moves(board, WHITE)) = {<<2, 4>>, <<3, 5>>, <<4, 2>>, <<5, 3>>}
  /\ (Called /\ prevBoard = BoardNew /\ lastColor = WHITE /\ lastPos = <<2, 4>>) =>
       /\ lastResult = "Ok"
       /\ score(board) = <<4, 1>>
       /\ Cardinality({q \in Cells : At(prevBoard, q) = BLACK /\ At(board, q) = WHITE}) = 1

\* C7 witness: WHITE has played (2,4) on the initial board
C7_Witness ==
  /\ prevBoard = BoardNew
  /\ lastColor = WHITE
  /\ lastPos = <<2, 4>>
  /\ lastResult = "Ok"

(***************************************************************************)
(* Claims about mcts_search                                                *)
(***************************************************************************)
RootMoves == Elems(legal_moves(root_state, player))

\* C8: mcts_search returns None when the root color has no legal move and
\* when iterations = 0; with iterations >= 1 and a legal move at the root it
\* returns Some (and does not panic on the way).
C8_NoneOrSome ==
  /\ pc = "done" => ((ret = None) <=> (RootMoves = {} \/ iterations = 0))
  /\ pc # "panic"

\* C8 witness: the search returned None with iterations = 0 although the
\* root color had a legal move
C8_Witness ==
  /\ pc = "done"
  /\ ret = None
  /\ iterations = 0
  /\ RootMoves # {}

\* C9: a position returned by mcts_search is an element of legal_moves of the
\* root board for the root color, so play succeeds on it; every play applied
\* inside expand and rollout returned Ok.
C9_OnlyLegalActions ==
  /\ (pc = "done" /\ ret # None) =>
       /\ ret[1] \in RootMoves
       /\ play(root_state, player, ret[1]).res = "Ok"
  /\ playRes \in {"none", "Ok"}
  /\ \A i \in 2..Len(nodes) :
       LET p == nodes[nodes[i].parent[1]] IN
       /\ nodes[i].action[1] \in Elems(legal_moves(p.state, p.player))
       /\ nodes[i].state = play(p.state, p.player, nodes[i].action[1]).b

\* C9 witness: a search of two or more iterations returned a position after
\* playouts that had to play and to skip
C9_Witness ==
  /\ pc = "done"
  /\ ret # None
  /\ iterations >= 2
  /\ playRes = "Ok"
  /\ Len(nodes) >= 3

\* the number of parent links from node a up to node b of the tree ns, or -1
\* when b is not on the path from a to the root
RECURSIVE Distance(_, _, _)
Distance(ns, a, b) ==
  IF a = b THEN 0
  ELSE IF ns[a].parent = None THEN -1
  ELSE LET d == Distance(ns, ns[a].parent[1], b) IN
       IF d < 0 THEN -1 ELSE d + 1

BackpropagateDone == pc = "loop" /\ iter >= 1

\* C10: backpropagate(r) on a node adds 1 to the visits of the node and of
\* each ancestor up to the root, adds r to the wins of the node and of the
\* ancestors at even distance and 1 - r to those at odd distance, and leaves
\* every other node as it was (wins2 = 2 * wins, result2 = 2 * r).
C10_Backpropagate ==
  BackpropagateDone =>
    /\ Len(nodes) = Len(preNodes)
    /\ Distance(preNodes, bpNode, 1) >= 0
    /\ \A i \in 1..Len(nodes) :
         LET d == Distance(preNodes, bpNode, i) IN
         /\ nodes[i].visits = preNodes[i].visits + (IF d >= 0 THEN 1 ELSE 0)
         /\ nodes[i].wins2 = preNodes[i].wins2 +
              (IF d < 0 THEN 0 ELSE IF d % 2 = 0 THEN result2 ELSE 2 - result2)
         /\ [nodes[i] EXCEPT !.visits = 0, !.wins2 = 0]
              = [preNodes[i] EXCEPT !.visits = 0, !.wins2 = 0]

\* C10 witness: backpropagate ran from a node at depth 2 or more with a
\* result other than 0.5 in a tree that has a node off the path
C10_Witness ==
  /\ BackpropagateDone
  /\ result2 # 1
  /\ Distance(preNodes, bpNode, 1) >= 2
  /\ \E i \in 1..Len(nodes) : Distance(preNodes, bpNode, i) < 0

(***************************************************************************)
(* Claims about rollout                                                    *)
(***************************************************************************)
Empties(b) == 64 - Occupied(b)

\* C11: at every turn of the loop of rollout and at its end, the plays applied
\* (each fills one cell) are at most the empty cells of its first board, so
\* at most 60; the turn is never skipped twice in a row, so the loop has had
\* at most 2 * plays + 1 turns and cannot go on for ever; the board it ends on
\* is one for which game_over holds.
C11_RolloutTerminates ==
  pc \in {"rollout", "backprop"} =>
    /\ rplays <= Empties(rstart)
    /\ rplays <= 60
    /\ Occupied(rstate) = Occupied(rstart) + rplays
    /\ rskips <= 1
    /\ rturns <= 2 * rplays + 1
    /\ pc = "backprop" => game_over(rstate)

\* C11 witness: a rollout has ended after two plays and a skipped turn
C11_Witness ==
  /\ pc = "backprop"
  /\ rplays = 2
  /\ rturns = 3
  /\ game_over(rstate)
  /\ Empties(rstate) = 0

CountOf(b, color) == Cardinality({p \in Cells : At(b, p) = color})

\* C12: the value a rollout returns (result2 is twice the value) is 1.0 when
\* the final board holds strictly more cells of the node's own player than of
\* the other color, 0.5 when it holds as many and 0.0 otherwise: a function of
\* the final board and the node's player alone.
C12_RolloutValue ==
  pc = "backprop" =>
    LET own == CountOf(rstate, nodes[node].player)
        other == CountOf(rstate, Opposite(nodes[node].player))
    IN /\ result2 \in {0, 1, 2}
       /\ result2 = 2 <=> own > other
       /\ result2 = 1 <=> own = other
       /\ result2 = 0 <=> own < other

\* C12 witness: a rollout of a BLACK node returned 1.0 after a skipped turn,
\* the last move being made by the other side
C12_Witness ==
  /\ pc = "backprop"
  /\ result2 = 2
  /\ nodes[node].player = BLACK
  /\ rplayer = nodes[node].player
  /\ rturns > rplays

(***************************************************************************)
(* Claims about best_child                                                 *)
(***************************************************************************)
\* the children of node n with a maximal score
Maximal(ns, n, c2) ==
  {k \in Elems(ns[n].children) :
     \A d \in Elems(ns[n].children) : Compare(ns, n, k, d, c2) \in {"Greater", "Equal"}}

\* children are inserted in the order of their indices
FirstMaximal(ns, n, c2) ==
  CHOOSE k \in Maximal(ns, n, c2) : \A d \in Maximal(ns, n, c2) : k <= d

LastMaximal(ns, n, c2) ==
  CHOOSE k \in Maximal(ns, n, c2) : \A d \in Maximal(ns, n, c2) : k >= d

\* the nodes selection went through: the ancestors of the selected node
Selected(i) == pc = "expand" /\ i # node /\ Distance(nodes, node, i) >= 0

\* the child of node i that selection went on to
SelectedChild(i) ==
  CHOOSE k \in Elems(nodes[i].children) : Distance(nodes, node, k) >= 0

\* C13 as claimed: best_child picks a child with the maximal score and among
\* several of them the one inserted first, in selection and for the action
\* that mcts_search returns.
C13_Original ==
  /\ \A i \in 1..Len(nodes) :
       Selected(i) => SelectedChild(i) = FirstMaximal(nodes, i, 2)
  /\ (pc = "done" /\ ret # None) => ret = nodes[FirstMaximal(nodes, 1, 0)].action

\* C13: best_child picks a child with the maximal score and among several of
\* them the one inserted last, in selection and for the action that
\* mcts_search returns.
C13_BestChildLast ==
  /\ \A i \in 1..Len(nodes) :
       Selected(i) => SelectedChild(i) = LastMaximal(nodes, i, 2)
  /\ (pc = "done" /\ ret # None) => ret = nodes[LastMaximal(nodes, 1, 0)].action

\* C13 witness: mcts_search returned the action of one of several children of
\* the root with the highest wins / visits
C13_Witness ==
  /\ pc = "done"
  /\ ret # None
  /\ Cardinality(Maximal(nodes, 1, 0)) >= 2
  /\ Cardinality(Maximal(nodes, 1, 0)) < Len(nodes[1].children)

(***************************************************************************)
(* Claims about Game                                                       *)
(***************************************************************************)
\* C14: play_turn leaves current_turn as it was, whatever it returns; a turn of
\* the loop of play_whole_game leaves the other color to move when the move
\* was accepted or the turn was skipped, the same color when the move was
\* rejected or the input did not parse; no two turns in a row are skipped.
C14_TurnChanges ==
  /\ (gpc = "match" \/ turnKind = "called") => current_turn = turnStart
  /\ gpc \in {"loop", "over"} =>
       /\ turnKind \in {"accepted", "skip"} => current_turn = Opposite(turnStart)
       /\ turnKind \in {"rejected", "invalid"} => current_turn = turnStart
       /\ turnKind = "accepted" => lastResult = "Ok"
       /\ turnKind = "rejected" => lastResult \notin {"Ok", "none"}
  /\ gskips <= 1

\* C14 witness: play_whole_game has just skipped the turn of BLACK, after 59
\* accepted moves
C14_Witness ==
  /\ gpc = "loop"
  /\ turnKind = "skip"
  /\ turnStart = BLACK
  /\ current_turn = WHITE
  /\ okCalls = 59
  /\ ~game_over(board)

(***************************************************************************)
(* Claims about the symmetry of Board::new                                 *)
(***************************************************************************)
\* rotation of the board by 90 degrees and by 180 degrees (point reflection)
Rot90(p) == <<7 - p[2], p[1]>>

Rot180(p) == <<7 - p[1], 7 - p[2]>>

Image(f(_), S) == {f(p) : p \in S}

\* the board is still the one Board::new built
Fresh == okCalls = 0

\* C15 as claimed: the board of Board::new is invariant under rotation by 90
\* degrees, and legal_moves(WHITE) and legal_moves(BLACK) have the same number
\* of elements and are images of each other under the point reflection.
C15_Original ==
  Fresh =>
    LET white == legal_moves(board, WHITE)
        black == legal_moves(board, BLACK)
    IN /\ \A p \in Cells : At(board, Rot90(p)) = At(board, p)
       /\ Len(white) = Len(black)
       /\ Image(Rot180, Elems(white)) = Elems(black)
       /\ Image(Rot180, Elems(black)) = Elems(white)

\* C15: the board of Board::new is invariant under rotation by 180 degrees,
\* and rotation by 90 degrees exchanges its two colors; legal_moves(WHITE) and
\* legal_moves(BLACK) have the same number of elements and are images of each
\* other under the rotation by 90 degrees, and the point reflection maps each
\* of them onto itself.
C15_Symmetry ==
  Fresh =>
    LET white == legal_moves(board, WHITE)
        black == legal_moves(board, BLACK)
    IN /\ \A p \in Cells : At(board, Rot180(p)) = At(board, p)
       /\ \A p \in Cells : At(board, Rot90(p)) = -At(board, p)
       /\ Len(white) = Len(black)
       /\ Image(Rot90, Elems(white)) = Elems(black)
       /\ Image(Rot90, Elems(black)) = Elems(white)
       /\ Image(Rot180, Elems(white)) = Elems(white)
       /\ Image(Rot180, Elems(black)) = Elems(black)

\* C15 witness: the board of Board::new, with four moves for each color, when
\* nothing but a failing call of play has touched it
C15_Witness ==
  /\ Fresh
  /\ Called
  /\ Len(legal_moves(board, WHITE)) = 4
  /\ Len(legal_moves(board, BLACK)) = 4
  /\ Occupied(board) = 4

(***************************************************************************)
(* Claims about failing calls of play                                      *)
(***************************************************************************)
\* C16: a call of play that returns an error leaves every cell of the board
\* as it was, the cell at pos too: on every reachable board, for both colors
\* and every coordinate on or off the board, and in the call just made.
C16_FailedPlayKeepsBoard ==
  /\ \A color \in Colors, pos \in Coords :
       LET r == play(board, color, pos) IN
       r.res # "Ok" => r.b = board
  /\ (Called /\ lastResult # "Ok") =>
       /\ board = prevBoard
       /\ \A p \in Cells : At(board, p) = At(prevBoard, p)

\* C16 witness: after a successful play, a call on an empty cell that captures
\* nothing has failed and the cell is still empty
C16_Witness ==
  /\ Called
  /\ lastResult = "DoesntTurnOver"
  /\ okCalls >= 1
  /\ lastPos = <<0, 0>>
  /\ At(prevBoard, lastPos) = 0
  /\ At(board, lastPos) = 0

(***************************************************************************)
(* Claims about the visit counts best_child divides by                     *)
(***************************************************************************)
\* best_child has been evaluated on node n of the tree as it is now: by the
\* selection that has just ended (on every node it went through, and on the
\* node it stopped at if that one is fully expanded and not terminal), or for
\* the final choice
Evaluated(n) ==
  \/ Selected(n)
  \/ pc = "expand" /\ n = node /\ ~is_terminal(nodes[n]) /\ is_fully_expanded(nodes[n])
  \/ pc = "done" /\ RootMoves # {} /\ n = 1

ChildrenVisited(n) == \A k \in Elems(nodes[n].children) : nodes[k].visits >= 1

\* C17 as claimed: whenever best_child is evaluated on a node, every child of
\* the node has visits >= 1 and the node itself has visits >= 1.
C17_Original ==
  \A n \in 1..Len(nodes) :
    Evaluated(n) => ChildrenVisited(n) /\ nodes[n].visits >= 1

\* C17: whenever best_child is evaluated on a node, every child of the node
\* has visits >= 1 and, if it has a child, the node itself has visits >= 1, so
\* no score is computed with a zero visit count and no comparison panics;
\* selection goes through a node only when it has no untried action left,
\* and between iterations every node but the root has been visited.
C17_NoZeroVisits ==
  /\ \A n \in 1..Len(nodes) :
       Evaluated(n) =>
         /\ ChildrenVisited(n)
         /\ nodes[n].children # <<>> => nodes[n].visits >= 1
  /\ \A n \in 1..Len(nodes) : Selected(n) => is_fully_expanded(nodes[n])
  /\ pc \in {"loop", "expand", "done"} =>
       \A i \in 2..Len(nodes) : nodes[i].visits >= 1
  /\ pc # "panic"

\* C17 witness: selection has gone through the root, which has two children
\* or more, and through one of them
C17_Witness ==
  /\ pc = "expand"
  /\ Distance(nodes, node, 1) >= 2
  /\ Len(nodes[1].children) >= 2
  /\ Evaluated(1)

(***************************************************************************)
(* Claims about the nodes of the tree                                      *)
(***************************************************************************)
\* the actions of the children of node i
ChildActions(i) == {nodes[k].action[1] : k \in Elems(nodes[i].children)}

\* the last step of expansion added a node to the tree
Expanded == exNodes # <<>> /\ Len(nodes) = Len(exNodes) + 1

\* v without its last element
Front(v) == SubSeq(v, 1, Len(v) - 1)

\* C18: a node is created with untried_actions = legal_moves of its board for
\* its player and no child; through an iteration the untried actions of a
\* node stay as they were, except that an expand removes exactly one (the
\* last) from the node it is called on; at every point the actions of the
\* children and the untried actions of a node are, without duplicates,
\* exactly the legal moves of its board for its player.
C18_UntriedActions ==
  /\ pc = "start" => nodes[1].untried_actions = legal_moves(root_state, player)
  /\ (pc = "rollout" /\ Expanded) =>
       LET new == nodes[Len(nodes)] IN
       /\ new.untried_actions = legal_moves(new.state, new.player)
       /\ new.children = <<>>
  /\ \A i \in 1..Len(exNodes) :
       nodes[i].untried_actions =
         IF Expanded /\ i = exNode THEN Front(exNodes[i].untried_actions)
         ELSE exNodes[i].untried_actions
  /\ \A i \in 1..Len(nodes) :
       LET moves == legal_moves(nodes[i].state, nodes[i].player)
           untried == nodes[i].untried_actions
       IN /\ ChildActions(i) \cup Elems(untried) = Elems(moves)
          /\ ChildActions(i) \cap Elems(untried) = {}
          /\ Cardinality(ChildActions(i)) = Len(nodes[i].children)
          /\ Cardinality(Elems(untried)) = Len(untried)

\* C18 witness: after three expansions of the root it has three children and
\* an untried action left
C18_Witness ==
  /\ pc = "rollout"
  /\ Expanded
  /\ exNode = 1
  /\ Len(nodes[1].children) = 3
  /\ Len(nodes[1].untried_actions) = 1

\* C19: a node n other than the root has a parent p, is one of p's children,
\* holds the board of p after the successful play of n.action by p.player and
\* has the player opposite to p.player, whether or not that color has a
\* legal move; when expand creates it, it is appended to p.children as the
\* last element and is the node the iteration goes on with; the board and
\* the player of a node never change.
C19_ChildNodes ==
  /\ \A n \in 2..Len(nodes) :
       /\ nodes[n].parent # None
       /\ nodes[n].action # None
       /\ LET p == nodes[n].parent[1]
              r == play(nodes[p].state, nodes[p].player, nodes[n].action[1])
          IN /\ p \in 1..(n - 1)
             /\ Cardinality({j \in 1..Len(nodes[p].children) :
                               nodes[p].children[j] = n}) = 1
             /\ r.res = "Ok"
             /\ nodes[n].state = r.b
             /\ nodes[n].player = Opposite(nodes[p].player)
  /\ \A p \in 1..Len(nodes) :
       \A k \in Elems(nodes[p].children) : nodes[k].parent = Some(p)
  /\ Expanded =>
       /\ nodes[exNode].children = Append(exNodes[exNode].children, Len(nodes))
       /\ nodes[Len(nodes)].parent = Some(exNode)
       /\ pc = "rollout" => node = Len(nodes)
  /\ \A i \in 1..Len(exNodes) :
       /\ nodes[i].state = exNodes[i].state
       /\ nodes[i].player = exNodes[i].player
  /\ nodes # <<>> =>
       /\ nodes[1].state = root_state
       /\ nodes[1].player = player
       /\ nodes[1].parent = None

\* C19 witness: expand has just created, as child of a node that is not the
\* root, a node whose player has no legal move on its board although the game
\* is not over
C19_Witness ==
  /\ pc = "rollout"
  /\ Expanded
  /\ rturns = 0
  /\ exNode # 1
  /\ legal_moves(nodes[node].state, nodes[node].player) = <<>>
  /\ ~is_terminal(nodes[node])

(***************************************************************************)
(* Claims about the statistics of the tree                                 *)
(***************************************************************************)
\* the sum of the visits of the nodes ks of the tree ns
RECURSIVE SumVisits(_, _)
SumVisits(ns, ks) ==
  IF ks = <<>> THEN 0 ELSE ns[Head(ks)].visits + SumVisits(ns, Tail(ks))

\* iter iterations are complete and no other is in progress
BetweenIterations == pc = "loop" \/ (pc = "done" /\ RootMoves # {})

\* C20: after k completed iterations, for every k up to iterations, every
\* node has 0 <= wins <= visits (wins2 = 2 * wins), the root has visits = k
\* and as many visits as its children together, and the last iteration has
\* added at most one node to the tree, so the tree has at most k + 1 nodes.
C20_Statistics ==
  /\ iter <= iterations
  /\ \A i \in 1..Len(nodes) :
       /\ 0 <= nodes[i].wins2
       /\ nodes[i].wins2 <= 2 * nodes[i].visits
  /\ BetweenIterations =>
       /\ nodes[1].visits = iter
       /\ nodes[1].visits = SumVisits(nodes, nodes[1].children)
       /\ Len(nodes) <= iter + 1
       /\ iter >= 1 =>
            /\ Len(nodes) \in {Len(exNodes), Len(exNodes) + 1}
            /\ Len(exNodes) <= iter

\* C20 witness: the whole budget of four iterations is used up, the root has
\* two children or more and the last iteration has added no node
C20_Witness ==
  /\ pc = "loop"
  /\ iter = iterations
  /\ iter = 4
  /\ Len(nodes[1].children) >= 2
  /\ Len(nodes) = Len(exNodes)
  /\ \E i \in 1..Len(nodes) : nodes[i].wins2 = 2 * nodes[i].visits
  /\ \E i \in 1..Len(nodes) : nodes[i].wins2 = 0

(***************************************************************************)
(* Claims about the Board of src/src/main.rs                               *)
(***************************************************************************)
\* the cells whose content differs between the boards a and b
Changed(a, b) == {p \in Cells : At(a, p) # At(b, p)}

\* C21 as claimed: on the Board of main.rs, whenever is_legal_move(color,
\* (x, y)) holds play(color, (x, y)) returns Ok, and a successful play changes
\* only the cell that get((x, y)) reads and the cells of the captured rays,
\* so that the number of occupied cells grows by exactly 1.
C21_MainPlay ==
  /\ \A color \in Colors, pos \in Cells :
       main_is_legal_move(board, color, pos).legal =>
         main_play(board, color, pos).res = "Ok"
  /\ lastResult = "Ok" =>
       /\ Changed(prevBoard, board) =
            {lastPos} \cup Captured(prevBoard, lastColor, lastPos)
       /\ At(board, lastPos) = lastColor
       /\ Occupied(board) = Occupied(prevBoard) + 1

====
